---- MODULE Spec2Model ----
(***************************************************************************)
(* Per-entry decoding pipeline of nwtools-rs:                              *)
(*   file-system/src/decompressor/mod.rs  (Decompressor)                   *)
(* An archive entry (ZipFile opened raw) is decompressed by try_new /      *)
(* decompress into Decompressor.buf, classified by file_type and rendered  *)
(* into a caller-supplied writer by to_writer.                             *)
(*                                                                         *)
(* A Rust panic (slice index out of range, unwrap on Err, todo!()) is an   *)
(* outcome of its own, "Panic", distinct from a returned Err.              *)
(***************************************************************************)
EXTENDS Integers, Sequences, FiniteSets, TLC

VARIABLES
    zip,        \* the ZipFile the Decompressor borrows: size, compression, raw data, name
    ARGS,       \* process-wide configuration: the two output-format selectors
    origin,     \* ghost: how the entry was produced (payload, envelope, wrapping)
    created,    \* outcome of try_new: status "pending" | "Ok" | "Err" | "Panic", error text
    buf,        \* Decompressor.buf
    ftype,      \* outcome of a direct file_type call
    written,    \* outcome of to_writer: status, extra (side-band)
    writer,     \* bytes the sink has received
    oodle,      \* ghost: the call decompress made to oodle_safe::decompress, if any
    \* the command-line driver, src/main.rs
    pc,         \* where main / run stands
    cancel,     \* App::handle().cancel: the token ctrl_c cancels
    spinner,    \* the "Initializing File System" spinner
    archive,    \* how many files the input directory holds (after the filter)
    locale,     \* whether fs.load_localization("en-us") has returned
    walk,       \* fs.all: "none" | "started" | "done"
    files_len,  \* len = files.len()
    processed,  \* the AtomicU64 the per-entry callback increments
    bars,       \* the MultiProgress bars: "none" | "started" | "stopped"
    summary     \* whether cliclack::outro has reported the summary

dvars == <<pc, cancel, spinner, archive, locale, walk, files_len, processed, bars, summary>>

vars == <<zip, ARGS, origin, created, buf, ftype, written, writer, oodle,
          pc, cancel, spinner, archive, locale, walk, files_len, processed, bars, summary>>

----------------------------------------------------------------------------
(* Bounds *)

\* longest body appended to a magic prefix when payloads are enumerated
MaxBody == 2

\* most files the input directory holds
MaxFiles == 3

----------------------------------------------------------------------------
(* Byte sequences *)

Take(s, n) == SubSeq(s, 1, IF n < Len(s) THEN n ELSE Len(s))
Drop(s, n) == SubSeq(s, n + 1, Len(s))

\* Cursor::new(bytes).chain(&mut self.zip): the peeked bytes, then the rest
chain(first, rest) == first \o rest

----------------------------------------------------------------------------
(* flate2: DEFLATE (RFC 1951, stored blocks) and zlib (RFC 1950) *)

RECURSIVE AdlerAB(_, _, _)
AdlerAB(s, a, b) ==
    IF s = <<>> THEN <<a, b>>
    ELSE LET a2 == (a + s[1]) % 65521
         IN  AdlerAB(Tail(s), a2, (b + a2) % 65521)

\* Adler-32 of s, big-endian, as zlib stores it after the deflate stream
Adler32(s) ==
    LET ab == AdlerAB(s, 1, 0)
    IN  <<ab[2] \div 256, ab[2] % 256, ab[1] \div 256, ab[1] % 256>>

\* Inflate a raw DEFLATE stream. Block header: bit 0 BFINAL, bits 1-2 BTYPE.
\* BTYPE 0 is a stored block (LEN, NLEN = ~LEN, LEN literal bytes); BTYPE 3 is
\* reserved and rejected. Streams of the model carry no Huffman blocks.
RECURSIVE Inflate(_, _)
Inflate(s, out) ==
    IF Len(s) = 0 THEN [ok |-> FALSE, out |-> out, rest |-> s]
    ELSE LET bfinal == s[1] % 2
             btype  == (s[1] \div 2) % 4
         IN  IF btype # 0 \/ Len(s) < 5
             THEN [ok |-> FALSE, out |-> out, rest |-> s]
             ELSE LET len  == s[2] + 256 * s[3]
                      nlen == s[4] + 256 * s[5]
                  IN  IF len + nlen # 65535 \/ Len(s) < 5 + len
                      THEN [ok |-> FALSE, out |-> out, rest |-> s]
                      ELSE LET out2 == out \o SubSeq(s, 6, 5 + len)
                               rest == Drop(s, 5 + len)
                           IN  IF bfinal = 1
                               THEN [ok |-> TRUE, out |-> out2, rest |-> rest]
                               ELSE Inflate(rest, out2)

\* flate2::read::DeflateDecoder read to the end by std::io::copy
DeflateDecoder(s) ==
    LET r == Inflate(s, <<>>)
    IN  [ok |-> r.ok, out |-> r.out]

\* flate2::read::ZlibDecoder (Decompress::new(true)): 2-byte header, deflate
\* stream, Adler-32 of the output
ZlibDecoder(s) ==
    IF Len(s) < 2 THEN [ok |-> FALSE, out |-> <<>>]
    ELSE LET cmf == s[1]
             flg == s[2]
             hdr == /\ cmf % 16 = 8
                    /\ cmf \div 16 <= 7
                    /\ (cmf * 256 + flg) % 31 = 0
                    /\ (flg \div 32) % 2 = 0
             r   == Inflate(Drop(s, 2), <<>>)
         IN  IF ~hdr \/ ~r.ok THEN [ok |-> FALSE, out |-> r.out]
             ELSE [ok |-> Take(r.rest, 4) = Adler32(r.out) /\ Len(r.rest) >= 4,
                   out |-> r.out]

\* What a compressor writes for payload p: one final stored block
DeflateRaw(p) == <<1, Len(p) % 256, Len(p) \div 256,
                   255 - (Len(p) % 256), 255 - (Len(p) \div 256)>> \o p

\* ... and the same behind the zlib "best compression" header 78 DA
DeflateZlib(p) == <<120, 218>> \o DeflateRaw(p) \o Adler32(p)

----------------------------------------------------------------------------
(* crate::azcs -- the engine's second compression envelope *)

AZCS_SIG == <<65, 90, 67, 83>>

\* azcs::is_azcs: the four signature bytes spell "AZCS"
is_azcs(sig) == sig = AZCS_SIG

\* azcs::decompress: Err when the header after the signature names no known
\* compressor; otherwise a reader over the zlib stream that follows, whose
\* reads fail when that stream is corrupt.
azcs_decompress(b) ==
    IF Len(b) < 5 \/ Take(b, 4) # AZCS_SIG \/ b[5] # 115
    THEN [ok |-> FALSE, read |-> [ok |-> FALSE, out |-> <<>>]]
    ELSE [ok |-> TRUE, read |-> ZlibDecoder(Drop(b, 5))]

\* an AZCS envelope over q, as the engine's packer writes it
AzcsEnvelope(q) == AZCS_SIG \o <<115>> \o DeflateZlib(q)

----------------------------------------------------------------------------
(* oodle_safe -- the external block decompressor of ZIP method 15 *)

\* a compressed block over q
OodleBlock(q) == <<140>> \o q

\* oodle_safe::decompress(src, dst, ..): fills dst, whose length dstLen is the
\* raw length it is asked to produce; fails unless src is a block of exactly
\* that many bytes
oodle_decompress(src, dstLen) ==
    IF Len(src) >= 1 /\ src[1] = 140 /\ Len(src) - 1 = dstLen
    THEN [ok |-> TRUE, out |-> Drop(src, 1)]
    ELSE [ok |-> FALSE, out |-> <<>>]

----------------------------------------------------------------------------
(* Decompressor::decompress *)

Ok(b)      == [status |-> "Ok", err |-> "", buf |-> b]
Err(e)     == [status |-> "Err", err |-> e, buf |-> <<>>]
Panic(why) == [status |-> "Panic", err |-> why, buf |-> <<>>]

\* CompressionMethod::Stored => std::io::copy(&mut self.zip, &mut self.buf)
decompress_Stored(z, b) == Ok(b \o z.data)

\* CompressionMethod::Deflated: peek two bytes, pick zlib or raw deflate, and
\* decode the peeked bytes chained in front of the rest of the stream
decompress_Deflated(z, b) ==
    IF Len(z.data) < 2 THEN Err("failed to fill whole buffer")
    ELSE LET bytes == Take(z.data, 2)
             rest  == Drop(z.data, 2)
             r     == IF bytes = <<120, 218>>
                      THEN ZlibDecoder(chain(bytes, rest))
                      ELSE DeflateDecoder(chain(bytes, rest))
         IN  IF r.ok THEN Ok(b \o r.out) ELSE Err("corrupt deflate stream")

\* CompressionMethod::Unsupported(15): read everything, then hand Oodle
\* `&mut self.buf` as the destination: the slice of the Vec's current length
decompress_Oodle(z, b) ==
    LET compressed == z.data
        r          == oodle_decompress(compressed, Len(b))
    IN  IF r.ok THEN Ok(r.out) ELSE Err("Error with oodle_safe::decompress.")

NoCall == [called |-> FALSE, src |-> <<>>, dstLen |-> 0]

\* the arguments of oodle_safe::decompress(&compressed, &mut self.buf, ..) when
\* decompress gets to the Unsupported(15) arm: the whole compressed stream,
\* and a destination slice as long as the Vec is at that point
oodle_call(z, b) ==
    IF z.size > 0 /\ z.compression = "Unsupported(15)"
    THEN [called |-> TRUE, src |-> z.data, dstLen |-> Len(b)]
    ELSE NoCall

decompress_other_as_stored(z, b) == Ok(b \o z.data)

\* _ => Err(io::Error::new(io::ErrorKind::Other, "CompressionMethod not supported"))
decompress_other(z, b) == Err("CompressionMethod not supported")

\* match self.zip.compression() { .. }?
decompress_dispatch(z, b) ==
    CASE z.compression = "Stored"          -> decompress_Stored(z, b)
      [] z.compression = "Deflated"        -> decompress_Deflated(z, b)
      [] z.compression = "Unsupported(15)" -> decompress_Oodle(z, b)
      [] OTHER                             -> decompress_other(z, b)

azcs_unwrap_keeps_buf(b) ==
    IF Len(b) < 4 THEN Panic("range end index 4 out of range")
    ELSE Ok(b)

\* let mut sig = self.buf[..4].try_into().unwrap(); if is_azcs(&mut sig) { .. }
azcs_unwrap(b) ==
    IF Len(b) < 4 THEN Panic("range end index 4 out of range")
    ELSE IF is_azcs(Take(b, 4))
         THEN LET reader == azcs_decompress(b)
              IN  IF ~reader.ok THEN Panic("unwrap on Err")
                  ELSE IF ~reader.read.ok THEN Err("corrupt deflate stream")
                  ELSE Ok(reader.read.out)
         ELSE Ok(b)

decompress(z, b) ==
    IF z.size = 0 THEN Ok(b)
    ELSE LET r == decompress_dispatch(z, b)
         IN  IF r.status # "Ok" THEN r ELSE azcs_unwrap(r.buf)

\* try_new: buf = Vec::with_capacity(size) is empty; decompress()?; Ok(value)
try_new(z) == decompress(z, <<>>)

----------------------------------------------------------------------------
(* Decompressor::file_type *)

LUAC_SIG         == <<4, 0, 27, 76, 117>>
OBJECTSTREAM_SIG == <<0, 0, 0, 0, 3>>
DATASHEET_SIG    == <<17, 0, 0, 0>>

ObjectStreamFormat == {"XML", "MINI", "PRETTY", "BYTES"}
DatasheetFormat    == {"MINI", "PRETTY", "YAML", "CSV", "BYTES", "XML", "SQL"}

\* FileType::default()
FileType_default == [status |-> "Ok", kind |-> "Other", fmt |-> ""]

\* let sig = &self.buf[..5]; match sig { .. }  -- the entry's name is not read
file_type(b, args) ==
    IF Len(b) < 5
    THEN [status |-> "Panic", kind |-> "", fmt |-> ""]
    ELSE LET sig == SubSeq(b, 1, 5)
         IN  IF sig = LUAC_SIG
             THEN [status |-> "Ok", kind |-> "Luac", fmt |-> ""]
             ELSE IF sig = OBJECTSTREAM_SIG
             THEN [status |-> "Ok", kind |-> "ObjectStream", fmt |-> args.objectstream]
             ELSE IF SubSeq(sig, 1, 4) = DATASHEET_SIG
             THEN [status |-> "Ok", kind |-> "Datasheet", fmt |-> args.datasheet]
             ELSE FileType_default

----------------------------------------------------------------------------
(* Format decoders and renderers (crates object_stream, datasheet) *)

\* object_stream::from_reader: the signature, a child count, that many nodes
from_reader(b) ==
    IF Len(b) >= 6 /\ SubSeq(b, 1, 5) = OBJECTSTREAM_SIG /\ Len(b) - 6 = b[6]
    THEN [ok |-> TRUE, value |-> Drop(b, 6)]
    ELSE [ok |-> FALSE, value |-> <<>>]

\* Datasheet::try_from: the signature, a row count, that many cells
Datasheet_try_from(b) ==
    IF Len(b) >= 5 /\ SubSeq(b, 1, 4) = DATASHEET_SIG /\ Len(b) - 5 = b[5]
    THEN [ok |-> TRUE, value |-> Drop(b, 5)]
    ELSE [ok |-> FALSE, value |-> <<>>]

\* XMLObjectStream / JSONObjectStream serialisation: text that opens with the
\* format's first character and carries the nodes in file order
render_objectstream(fmt, tree) ==
    (CASE fmt = "XML"    -> <<60>>
       [] fmt = "MINI"   -> <<123>>
       [] fmt = "PRETTY" -> <<123, 10>>
       [] OTHER          -> <<>>) \o tree

\* Datasheet::to_json_simd / to_yaml / to_csv / to_sql
render_datasheet(fmt, sheet) ==
    (CASE fmt = "MINI"   -> <<91>>
       [] fmt = "PRETTY" -> <<91, 10>>
       [] fmt = "YAML"   -> <<45>>
       [] fmt = "CSV"    -> <<44>>
       [] fmt = "SQL"    -> <<67>>
       [] OTHER          -> <<>>) \o sheet

----------------------------------------------------------------------------
(* Decompressor::to_writer *)
(* The writer is an in-memory sink whose writes succeed, and the renderers  *)
(* return their text; what is left is to_writer's own control flow.         *)

None       == [tag |-> "None", datasheet |-> <<>>]
Some(d)    == [tag |-> "Some", datasheet |-> d]

\* Ok(extra) after `out` went to the writer
Wrote(out, extra) == [status |-> "Ok", err |-> "", extra |-> extra, out |-> out]
\* a panic before anything went to the writer
Unwound(why)      == [status |-> "Panic", err |-> why, extra |-> None, out |-> <<>>]

\* FileType::Luac => std::io::copy(&mut (&self.buf[2..]), writer)
to_writer_Luac(b) == Wrote(Drop(b, 2), None)

\* FileType::ObjectStream(fmt): BYTES returns early; a body from_reader
\* rejects is copied raw; otherwise the tree is serialised
to_writer_ObjectStream(b, fmt) ==
    IF fmt = "BYTES" THEN Wrote(b, None)
    ELSE LET parsed == from_reader(b)
         IN  IF ~parsed.ok THEN Wrote(b, None)
             ELSE Wrote(render_objectstream(fmt, parsed.value), None)

to_writer_Datasheet_bytes_no_extra(b, fmt) ==
    LET parsed == Datasheet_try_from(b)
    IN  IF ~parsed.ok THEN Unwound("unwrap on Err")
        ELSE IF fmt = "XML" THEN Unwound("not yet implemented")
        ELSE IF fmt = "BYTES" THEN Wrote(b, None)
        ELSE Wrote(render_datasheet(fmt, parsed.value), Some(parsed.value))

\* FileType::Datasheet(fmt): Datasheet::try_from(..).unwrap(), extra = Some(..),
\* then the match on fmt with XML => todo!()
to_writer_Datasheet(b, fmt) ==
    LET parsed == Datasheet_try_from(b)
    IN  IF ~parsed.ok THEN Unwound("unwrap on Err")
        ELSE IF fmt = "XML" THEN Unwound("not yet implemented")
        ELSE IF fmt = "BYTES" THEN Wrote(b, Some(parsed.value))
        ELSE Wrote(render_datasheet(fmt, parsed.value), Some(parsed.value))

\* _ => std::io::copy(&mut self.buf.as_slice(), writer)
to_writer_other(b) == Wrote(b, None)

to_writer(b, args) ==
    LET file_type_ == file_type(b, args)
    IN  IF file_type_.status = "Panic" THEN Unwound("range end index 5 out of range")
        ELSE IF file_type_.kind = "Luac" THEN to_writer_Luac(b)
        ELSE IF file_type_.kind = "ObjectStream"
             THEN to_writer_ObjectStream(b, file_type_.fmt)
        ELSE IF file_type_.kind = "Datasheet"
             THEN to_writer_Datasheet(b, file_type_.fmt)
        ELSE to_writer_other(b)

----------------------------------------------------------------------------
(* Entries the archive reader hands over *)

BodyBytes == {0, 1}
Bodies    == UNION {[1..n -> BodyBytes] : n \in 0..MaxBody}
TEXT      == <<104, 101, 108, 108, 111>>
Magics    == {LUAC_SIG, OBJECTSTREAM_SIG, DATASHEET_SIG, TEXT}

\* every magic followed by every body, and every truncation of those
Payloads  == {Take(m \o b, k) : m \in Magics, b \in Bodies, k \in 0..(5 + MaxBody)}

Envelopes     == {"none", "azcs", "azcs_nested", "azcs_badheader", "azcs_badstream"}
CleanWraps    == {"Stored", "DeflateRaw", "DeflateZlib"}
DamagedWraps  == {"DeflateTruncated", "DeflateBadType", "DeflateOneByte", "ZlibBadAdler"}
OtherWraps    == {"Oodle", "Bzip2", "Unsupported(99)"}
Names         == {"a.dat", "a.distribution"}

Front(s) == SubSeq(s, 1, Len(s) - 1)

\* the bytes the ZIP layer is meant to give back
Content(o) ==
    CASE o.envelope = "none"           -> o.payload
      [] o.envelope = "azcs"           -> AzcsEnvelope(o.payload)
      [] o.envelope = "azcs_nested"    -> AzcsEnvelope(AzcsEnvelope(o.payload))
      [] o.envelope = "azcs_badheader" -> AZCS_SIG \o <<0>> \o DeflateZlib(o.payload)
      [] o.envelope = "azcs_badstream" -> Front(AzcsEnvelope(o.payload))

\* the raw bytes stored in the archive
Data(o) ==
    LET c == Content(o)
    IN  CASE o.wrap = "Stored"           -> c
          [] o.wrap = "DeflateRaw"       -> DeflateRaw(c)
          [] o.wrap = "DeflateZlib"      -> DeflateZlib(c)
          [] o.wrap = "DeflateTruncated" -> Front(DeflateRaw(c))
          [] o.wrap = "DeflateBadType"   -> <<7>> \o Tail(DeflateRaw(c))
          [] o.wrap = "DeflateOneByte"   -> <<1>>
          [] o.wrap = "ZlibBadAdler"     -> Front(DeflateZlib(c)) \o <<255>>
          [] o.wrap = "Oodle"            -> OodleBlock(c)
          [] OTHER                       -> c

Compression(o) ==
    CASE o.wrap = "Stored"         -> "Stored"
      [] o.wrap = "Oodle"          -> "Unsupported(15)"
      [] o.wrap \in {"Bzip2", "Unsupported(99)"} -> o.wrap
      [] OTHER                     -> "Deflated"

Entry(o) == [size        |-> Len(Content(o)),
             compression |-> Compression(o),
             data        |-> Data(o),
             name        |-> o.name]

Origins ==
    {[payload |-> p, envelope |-> e, wrap |-> w, name |-> n] :
        p \in Payloads, e \in Envelopes, w \in CleanWraps, n \in Names}
    \cup
    {[payload |-> p, envelope |-> "none", wrap |-> w, name |-> n] :
        p \in Payloads, w \in DamagedWraps \cup OtherWraps, n \in Names}

----------------------------------------------------------------------------
(* The state machine *)

Pending == [status |-> "pending", err |-> ""]

\* the driver before main has run
DriverIdle ==
    /\ pc = "main"
    /\ cancel = FALSE
    /\ spinner = "none"
    /\ archive = 0
    /\ locale = FALSE
    /\ walk = "none"
    /\ files_len = 0
    /\ processed = 0
    /\ bars = "none"
    /\ summary = FALSE

Init ==
    /\ origin \in Origins
    /\ zip = Entry(origin)
    /\ ARGS \in [objectstream : ObjectStreamFormat, datasheet : DatasheetFormat]
    /\ created = Pending
    /\ buf = <<>>
    /\ ftype = [status |-> "pending", kind |-> "", fmt |-> ""]
    /\ written = [status |-> "pending", err |-> "", extra |-> None]
    /\ writer = <<>>
    /\ oodle = NoCall
    /\ DriverIdle

\* no panic has unwound the worker that owns the Decompressor
Alive == created.status = "Ok" /\ ftype.status # "Panic" /\ written.status # "Panic"

\* Decompressor::try_new(zip, localization)
TryNew ==
    /\ created.status = "pending"
    /\ LET r == try_new(zip)
       IN  /\ created' = [status |-> r.status, err |-> r.err]
           /\ buf' = r.buf
    /\ oodle' = oodle_call(zip, <<>>)
    /\ UNCHANGED <<zip, ARGS, origin, ftype, written, writer>>
    /\ UNCHANGED dvars

\* decompressor.file_type()
FileType ==
    /\ Alive
    /\ ftype.status = "pending"
    /\ ftype' = file_type(buf, ARGS)
    /\ UNCHANGED <<zip, ARGS, origin, created, buf, written, writer, oodle>>
    /\ UNCHANGED dvars

\* decompressor.to_writer(&mut writer)
ToWriter ==
    /\ Alive
    /\ written.status = "pending"
    /\ LET r == to_writer(buf, ARGS)
       IN  /\ written' = [status |-> r.status, err |-> r.err, extra |-> r.extra]
           /\ writer' = writer \o r.out
    /\ UNCHANGED <<zip, ARGS, origin, created, buf, ftype, oodle>>
    /\ UNCHANGED dvars

Next == TryNew \/ FileType \/ ToWriter

Spec == Init /\ [][Next]_vars

----------------------------------------------------------------------------
(* The command-line driver: main and run of src/main.rs *)

lvars == <<zip, ARGS, origin, created, buf, ftype, written, writer, oodle>>

\* no entry has been opened: the driver owns no Decompressor yet
NoEntry == [payload |-> <<>>, envelope |-> "none", wrap |-> "Stored", name |-> "a.dat"]

DriverInit ==
    /\ origin = NoEntry
    /\ zip = Entry(origin)
    /\ ARGS \in [objectstream : ObjectStreamFormat, datasheet : DatasheetFormat]
    /\ created = Pending
    /\ buf = <<>>
    /\ ftype = [status |-> "pending", kind |-> "", fmt |-> ""]
    /\ written = [status |-> "pending", err |-> "", extra |-> None]
    /\ writer = <<>>
    /\ oodle = NoCall
    /\ pc = "main"
    /\ cancel = FALSE
    /\ spinner = "none"
    /\ archive \in 0..MaxFiles
    /\ locale = FALSE
    /\ walk = "none"
    /\ files_len = 0
    /\ processed = 0
    /\ bars = "none"
    /\ summary = FALSE

\* the process is still running: run has neither returned nor panicked
Running == pc \notin {"panicked", "done"}

\* main: App::init(), spawn the ctrl_c listener, call run()
Main ==
    /\ pc = "main"
    /\ pc' = "run"
    /\ UNCHANGED <<cancel, spinner, archive, locale, walk, files_len, processed, bars, summary>>
    /\ UNCHANGED lvars

\* the spawned listener: ctrl_c().await.unwrap(); token.cancel()
CtrlC ==
    /\ Running /\ pc # "main"
    /\ ~cancel
    /\ cancel' = TRUE
    /\ UNCHANGED <<pc, spinner, archive, locale, walk, files_len, processed, bars, summary>>
    /\ UNCHANGED lvars

\* run: read cwd, out_dir, filter from ARGS; the spawned task starts its spinner
FsInitStart ==
    /\ pc = "run"
    /\ spinner' = "started"
    /\ pc' = "fs_init"
    /\ UNCHANGED <<cancel, archive, locale, walk, files_len, processed, bars, summary>>
    /\ UNCHANGED lvars

\* FileSystem::init(..).await returns; pb.stop("File System Initialized")
FsInitDone ==
    /\ pc = "fs_init"
    /\ spinner' = "stopped"
    /\ pc' = "load_localization"
    /\ UNCHANGED <<cancel, archive, locale, walk, files_len, processed, bars, summary>>
    /\ UNCHANGED lvars

\* let locale = fs.load_localization("en-us").await
LoadLocalization ==
    /\ pc = "load_localization"
    /\ locale' = TRUE
    /\ pc' = "todo"
    /\ UNCHANGED <<cancel, spinner, archive, walk, files_len, processed, bars, summary>>
    /\ UNCHANGED lvars

\* dbg!(locale); todo!();  -- the macro panics and run unwinds
Todo ==
    /\ pc = "todo"
    /\ pc' = "panicked"
    /\ UNCHANGED <<cancel, spinner, archive, locale, walk, files_len, processed, bars, summary>>
    /\ UNCHANGED lvars

\* The statements of run that follow todo!(). No step of the driver leads to
\* them, so they are no part of DriverNext.

\* files = fs.files(filter); len = files.len(); the bars start; fs.all(files, ..)
StartWalk ==
    /\ pc = "files"
    /\ files_len' = archive
    /\ bars' = "started"
    /\ walk' = "started"
    /\ pc' = "all"
    /\ UNCHANGED <<cancel, spinner, archive, locale, processed, summary>>
    /\ UNCHANGED lvars

\* the per-entry callback: processed.fetch_add(1, Ordering::Relaxed)
Callback ==
    /\ pc = "all"
    /\ processed < files_len
    /\ processed' = processed + 1
    /\ UNCHANGED <<pc, cancel, spinner, archive, locale, walk, files_len, bars, summary>>
    /\ UNCHANGED lvars

\* fs.all(..).await? returns; the bars stop; cliclack::outro("Processed ../..")
Summary ==
    /\ pc = "all"
    /\ processed = files_len \/ cancel
    /\ walk' = "done"
    /\ bars' = "stopped"
    /\ summary' = TRUE
    /\ pc' = "done"
    /\ UNCHANGED <<cancel, spinner, archive, locale, files_len, processed>>
    /\ UNCHANGED lvars

DriverNext == Main \/ CtrlC \/ FsInitStart \/ FsInitDone \/ LoadLocalization \/ Todo

DriverSpec == DriverInit /\ [][DriverNext]_vars

----------------------------------------------------------------------------
(* Vocabulary of the properties *)

HasPrefix(b, sig) == Len(b) >= Len(sig) /\ SubSeq(b, 1, Len(sig)) = sig

TryNewReturned   == created.status # "pending"
FileTypeReturned == ftype.status # "pending"
ToWriterReturned == written.status # "pending"

\* the classifier as the design states it: first matching rule wins, and a
\* name ending in .distribution is a rule of its own
DesignKind(b, name) ==
    IF HasPrefix(b, LUAC_SIG) THEN "Luac"
    ELSE IF HasPrefix(b, OBJECTSTREAM_SIG) THEN "ObjectStream"
    ELSE IF HasPrefix(b, DATASHEET_SIG) THEN "Datasheet"
    ELSE IF name = "a.distribution" THEN "Distribution"
    ELSE "Other"

\* the five-byte signature names Datasheet (its fifth byte is free)
DatasheetPrefix(b) == Len(b) >= 5 /\ HasPrefix(b, DATASHEET_SIG)

\* the prefix names a structured kind and the format decoder rejects the body
BodyRejected(b) ==
    \/ HasPrefix(b, OBJECTSTREAM_SIG) /\ ~from_reader(b).ok
    \/ DatasheetPrefix(b) /\ ~Datasheet_try_from(b).ok

DatasheetParsed(b) == HasPrefix(b, DATASHEET_SIG) /\ Datasheet_try_from(b).ok

\* what the envelope of the entry wraps, when the envelope is a valid one
Unwrapped(o) ==
    CASE o.envelope = "azcs"        -> o.payload
      [] o.envelope = "azcs_nested" -> AzcsEnvelope(o.payload)
      [] OTHER                      -> Content(o)

----------------------------------------------------------------------------
(* Properties *)

\* C1: when the prefix names ObjectStream or Datasheet and the decoder rejects
\* the body, to_writer returns Ok(None) with exactly the raw buffer in the
\* sink, whatever the configured format; it neither fails nor panics.
C1_FallbackOnParseFailure ==
    (ToWriterReturned /\ BodyRejected(buf)) =>
        /\ written.status = "Ok"
        /\ written.extra = None
        /\ writer = buf

\* C2: file_type returns, for a buffer of any length and any name, the kind
\* the rule table gives (first match wins, .distribution before Opaque), and
\* never panics.
C2_ClassifierTotal ==
    FileTypeReturned =>
        /\ ftype.status = "Ok"
        /\ ftype.kind = DesignKind(buf, zip.name)

\* C3: a Stored entry whose payload does not begin with the AZCS magic decodes
\* to exactly that payload, whatever its length, and an Opaque payload is
\* written to the sink unchanged with no side-band.
C3_CodecIdentity ==
    (zip.compression = "Stored" /\ ~HasPrefix(zip.data, AZCS_SIG)) =>
        /\ TryNewReturned => (created.status = "Ok" /\ buf = zip.data)
        /\ (ToWriterReturned /\ DesignKind(zip.data, zip.name) = "Other") =>
               (written.status = "Ok" /\ written.extra = None /\ writer = zip.data)

\* C4: a payload not beginning with the AZCS magic, wrapped in deflate in the
\* raw or in the zlib (78 DA) form, decodes to exactly that payload, short
\* payloads included.
C4_DeflateRoundTrip ==
    (/\ TryNewReturned
     /\ origin.wrap \in {"DeflateRaw", "DeflateZlib"}
     /\ ~HasPrefix(Content(origin), AZCS_SIG)) =>
        (created.status = "Ok" /\ buf = Content(origin))

\* C5: with the Bytes format the sink receives exactly the buffer, for an
\* ObjectStream and for a Datasheet whether or not the body parses; script
\* bytecode is written without its two leading bytes.
C5_BytesPassthrough ==
    ToWriterReturned =>
        /\ (HasPrefix(buf, OBJECTSTREAM_SIG) /\ ARGS.objectstream = "BYTES") => writer = buf
        /\ (DatasheetPrefix(buf) /\ ARGS.datasheet = "BYTES") => writer = buf
        /\ HasPrefix(buf, LUAC_SIG) => writer = Drop(buf, 2)

\* C6: a to_writer that returns Ok returns Some(datasheet) exactly when the
\* buffer was classified Datasheet and parsed, whatever the DatasheetFormat,
\* and None for every other kind and after every parse failure.
C6_SideBandRule ==
    written.status = "Ok" =>
        IF DatasheetParsed(buf)
        THEN written.extra = Some(Datasheet_try_from(buf).value)
        ELSE written.extra = None

\* C6 witnesses: a parsed datasheet written as Bytes carries the side-band
C6_Witness ==
    /\ written.status = "Ok"
    /\ ARGS.datasheet = "BYTES"
    /\ DatasheetParsed(buf)
    /\ written.extra.tag = "Some"

\* C7: a corrupt compressed stream, decoded content of 1 to 3 bytes, or
\* content that begins with the AZCS magic without being a valid envelope,
\* makes try_new return Err; it never panics. (An entry of declared size 0 is
\* returned empty without being decoded.)
C7_CorruptInputIsErr ==
    (/\ TryNewReturned
     /\ zip.size > 0
     /\ \/ origin.wrap \in DamagedWraps
        \/ origin.wrap \in CleanWraps /\ Len(Content(origin)) < 4
        \/ origin.wrap \in CleanWraps
             /\ origin.envelope \in {"azcs_badheader", "azcs_badstream"}) =>
        created.status = "Err"

\* C8: an entry of nonzero declared size whose method is none of Stored,
\* Deflated, Unsupported(15) makes try_new fail with "CompressionMethod not
\* supported": no Decompressor exists and nothing reaches a sink.
C8_UnsupportedCodec ==
    (/\ TryNewReturned
     /\ zip.size > 0
     /\ zip.compression \notin {"Stored", "Deflated", "Unsupported(15)"}) =>
        /\ created = [status |-> "Err", err |-> "CompressionMethod not supported"]
        /\ buf = <<>>
        /\ ~ToWriterReturned /\ ~FileTypeReturned
        /\ writer = <<>>

C8_Witness ==
    /\ created.status = "Err"
    /\ zip.size > 0
    /\ zip.compression = "Bzip2"

\* C9: a parsed datasheet with the Xml format makes to_writer return the
\* Unimplemented error; it does not panic.
C9_XmlIsUnimplementedErr ==
    (ToWriterReturned /\ DatasheetParsed(buf) /\ ARGS.datasheet = "XML") =>
        written.status = "Err"

\* C10: once try_new has returned Ok, the buffer holds what a valid AZCS
\* envelope wraps when the ZIP-decoded bytes are such an envelope, and the
\* ZIP-decoded bytes unchanged otherwise.
C10_NoResidualEnvelope ==
    created.status = "Ok" => buf = Unwrapped(origin)

C10_Witness ==
    /\ created.status = "Ok"
    /\ origin.envelope = "azcs"
    /\ origin.wrap = "DeflateZlib"
    /\ HasPrefix(buf, DATASHEET_SIG)
    /\ buf = origin.payload

\* C11: for a method-15 entry of declared size N > 0 the whole compressed
\* stream is handed to the external decompressor together with a destination
\* of writable length N; a block it accepts leaves the N decoded bytes in the
\* buffer, and a block it refuses makes try_new return Err.
C11_OodleDestination ==
    (TryNewReturned /\ zip.compression = "Unsupported(15)" /\ zip.size > 0) =>
        /\ oodle.called
        /\ oodle.src = zip.data
        /\ oodle.dstLen = zip.size
        /\ created.status \in {"Ok", "Err"}
        /\ (Len(origin.payload) >= 4 /\ ~HasPrefix(origin.payload, AZCS_SIG)) =>
               (created.status = "Ok" /\ buf = origin.payload)

\* C12: a run of the driver that is not cancelled does not end before it
\* has initialised the file system, loaded the localization table, started
\* the archive walk, stopped the progress bars and reported the summary; the
\* processed counter never exceeds the number of files.
C12_DriverProgress ==
    /\ processed <= files_len
    /\ (~Running /\ ~cancel) =>
           /\ spinner = "stopped"
           /\ locale
           /\ walk = "done"
           /\ bars = "stopped"
           /\ summary

====
